---- MODULE Spec2Model ----
(***************************************************************************)
(* pc.asset.AssetRegistry (src/src/asset/asset_registry.js).               *)
(*                                                                         *)
(* The registry keeps two JavaScript objects used as maps: _cache          *)
(* (resourceId -> Asset object) and _names (name -> resourceId).  Asset    *)
(* objects are mutable and shared by reference, so the model keeps a heap  *)
(* of objects and the maps hold references (indices) into it.  A property  *)
(* key is always a string, so the value undefined used as a key is the key *)
(* "undefined"; the model writes undefined as that string.                 *)
(***************************************************************************)
EXTENDS Integers, Sequences, FiniteSets, TLC

VARIABLES heap, _cache, _names, hashes, registered, batches, faults,
          nLoad, nThrown, nOps, result

vars == <<heap, _cache, _names, hashes, registered, batches, faults,
          nLoad, nThrown, nOps, result>>

----------------------------------------------------------------------------
(* Bounds of the model *)

MaxOps == 2       \* calls of update / addAsset / load in one behaviour
MaxAssets == 2    \* longest list of assets handed to load

----------------------------------------------------------------------------
(* Values *)

Undefined == "undefined"
Null == "null"
NoRef == 0

\* Ids are "a" and "b"; names are "a" and "n", so that a name can equal an
\* id; types are "model", "texture" and "other"; "f1" is a file reference and
\* "d1" inline data with a mapping.
Ids == {"a", "b"}
Prefix == "p/"

Truthy(v) == v # Undefined /\ v # Null /\ v # ""

Get(o, f) == IF f \in DOMAIN o THEN o[f] ELSE Undefined

FileHash(f) == "hash-" \o f
FileUrl(f) == "url-" \o f
DataMapping(d) == IF d = "d1" THEN "map-d1" ELSE Undefined

Asset(name, type, file, data, prefix) ==
    [proto |-> "Asset", resourceId |-> "guid", name |-> name, type |-> type,
     file |-> file, data |-> data, prefix |-> prefix]

getFileUrl(asset) ==
    IF Truthy(Get(asset, "file"))
    THEN Get(asset, "prefix") \o FileUrl(Get(asset, "file"))
    ELSE Null

extend(target, ex) == ex @@ target

----------------------------------------------------------------------------
(* The registry: [heap, cache, names, hashes] *)

\* registered lists the calls of loader.registerHash, in order
Registry ==
    [heap |-> heap, cache |-> _cache, names |-> _names, hashes |-> hashes,
     registered |-> registered]

EmptyRegistry ==
    [heap |-> <<>>, cache |-> <<>>, names |-> <<>>, hashes |-> <<>>, registered |-> <<>>]

getAssetByResourceId(reg, resourceId) ==
    IF resourceId \in DOMAIN reg.cache THEN reg.cache[resourceId] ELSE NoRef

\* getAsset that takes the name for an id when no asset has that name
getAssetOrById(reg, name) ==
    LET id == IF name \in DOMAIN reg.names THEN reg.names[name] ELSE Undefined
    IN  IF Truthy(id) /\ id \in DOMAIN reg.cache
        THEN reg.cache[id]
        ELSE IF name \in DOMAIN reg.cache THEN reg.cache[name] ELSE NoRef

getAsset(reg, name) ==
    LET id == IF name \in DOMAIN reg.names THEN reg.names[name] ELSE Undefined
    IN  IF Truthy(id) /\ getAssetByResourceId(reg, id) # NoRef
        THEN reg.cache[id]
        ELSE NoRef

\* addAsset without line 65
addAssetNamesOnly(reg, ref) ==
    LET asset == reg.heap[ref]
    IN  [reg EXCEPT
            !.names = (Get(asset, "name") :> Get(asset, "resourceId")) @@ @]

\* addAsset that keeps the id a name already has
addAssetKeepsName(reg, ref) ==
    LET asset == reg.heap[ref]
    IN  [reg EXCEPT
            !.cache = (Get(asset, "resourceId") :> ref) @@ @,
            !.names = @ @@ (Get(asset, "name") :> Get(asset, "resourceId"))]

\* addAsset that starts both maps afresh
addAssetAfresh(reg, ref) ==
    LET asset == reg.heap[ref]
    IN  [reg EXCEPT
            !.cache = (Get(asset, "resourceId") :> ref),
            !.names = (Get(asset, "name") :> Get(asset, "resourceId"))]

addAsset(reg, ref) ==
    LET asset == reg.heap[ref]
    IN  [reg EXCEPT
            !.cache = (Get(asset, "resourceId") :> ref) @@ @,
            !.names = (Get(asset, "name") :> Get(asset, "resourceId")) @@ @]

registerHash(reg, hash, url) ==
    [reg EXCEPT !.hashes = (hash :> url) @@ @,
                !.registered = Append(@, [hash |-> hash, url |-> url])]

alloc(reg, obj) == [reg EXCEPT !.heap = Append(@, obj)]

----------------------------------------------------------------------------
(* update(toc): the manifest is the sequence of toc.assets' (key, value)   *)
(* pairs in the order for..in visits them; keys are distinct.              *)

\* update that registers the hash for a known id too
updateEntryRegistersKnown(reg, resourceId, assetData) ==
    LET ref == getAssetByResourceId(reg, resourceId)
    IN  IF ref = NoRef
        THEN LET asset == [Asset(Get(assetData, "name"), Get(assetData, "type"),
                                 Get(assetData, "file"), Get(assetData, "data"),
                                 Prefix)
                             EXCEPT !.resourceId = resourceId]
                 r1 == alloc(reg, asset)
                 r2 == addAsset(r1, Len(r1.heap))
             IN  IF Truthy(asset.file)
                 THEN registerHash(r2, FileHash(asset.file), getFileUrl(asset))
                 ELSE r2
        ELSE LET merged == extend(reg.heap[ref], assetData)
                 r1 == [reg EXCEPT !.heap[ref] = merged]
             IN  IF Truthy(Get(merged, "file"))
                 THEN registerHash(r1, FileHash(merged.file), getFileUrl(merged))
                 ELSE r1

updateEntry(reg, resourceId, assetData) ==
    LET ref == getAssetByResourceId(reg, resourceId)
    IN  IF ref = NoRef
        THEN LET asset == [Asset(Get(assetData, "name"), Get(assetData, "type"),
                                 Get(assetData, "file"), Get(assetData, "data"),
                                 Prefix)
                             EXCEPT !.resourceId = resourceId]
                 r1 == alloc(reg, asset)
                 r2 == addAsset(r1, Len(r1.heap))
             IN  IF Truthy(asset.file)
                 THEN registerHash(r2, FileHash(asset.file), getFileUrl(asset))
                 ELSE r2
        ELSE [reg EXCEPT !.heap[ref] = extend(@, assetData)]

RECURSIVE update(_, _)
update(reg, toc) ==
    IF toc = <<>> THEN reg
    ELSE update(updateEntry(reg, Head(toc).id, Head(toc).data), Tail(toc))

----------------------------------------------------------------------------
(* Request builders *)

NullRequest == [kind |-> "null"]

createFileRequest(url, type) == [kind |-> "FileRequest", url |-> url, type |-> type]

ModelRequest(url, mapping) == [kind |-> "ModelRequest", url |-> url, mapping |-> mapping]

TextureRequest(url, options, texture) ==
    [kind |-> "TextureRequest", url |-> url, options |-> options, texture |-> texture]

_createAssetRequest(asset) ==
    LET url == getFileUrl(asset)
    IN  IF Truthy(url) THEN createFileRequest(url, Get(asset, "type")) ELSE NullRequest

_createModelRequest(asset) ==
    LET url == getFileUrl(asset)
        mapping == IF Truthy(Get(asset, "data")) /\ Truthy(DataMapping(Get(asset, "data")))
                   THEN DataMapping(Get(asset, "data"))
                   ELSE "[]"
    IN  ModelRequest(url, mapping)

_createTextureRequest(asset, texture) == TextureRequest(getFileUrl(asset), Null, texture)

----------------------------------------------------------------------------
(* load(assets, results, options), up to the call of loader.request.       *)
(* An argument is undefined, a list [t |-> "list", v |-> <<...>>] or one    *)
(* object [t |-> "object", v |-> <<o>>]; an asset is an item [ref, obj].   *)

UndefinedArg == [t |-> "undefined", v |-> <<>>]
ListArg(seq) == [t |-> "list", v |-> seq]
ObjectArg(o) == [t |-> "object", v |-> <<o>>]

ArrayObject == [proto |-> "Array", length |-> "0"]

\* lines 122-124: a value without a truthy length is wrapped in a list
normalizeAssets(assets) ==
    IF assets.t = "list" /\ Len(assets.v) > 0
    THEN assets.v
    ELSE IF assets.t = "list"
         THEN << [ref |-> NoRef, obj |-> ArrayObject] >>
         ELSE assets.v

\* lines 126-130
\* the results argument kept when there is no third argument
shiftedResultsKept(results, options) == results

shiftedResults(results, options) ==
    IF options.t = "undefined" THEN ListArg(<<>>) ELSE results

shiftedOptions(results, options) ==
    IF options.t = "undefined" THEN results ELSE options

\* results[index], index counted from 1 here
resultAt(results, index) ==
    IF results.t = "list" /\ index <= Len(results.v) THEN results.v[index] ELSE Undefined

place(reg, item) ==
    IF item.ref = NoRef
    THEN LET r1 == alloc(reg, item.obj) IN [reg |-> r1, ref |-> Len(r1.heap)]
    ELSE [reg |-> reg, ref |-> item.ref]

\* line 135: the lookup that decides whether the asset is registered
existingOf(reg, asset) == getAsset(reg, Get(asset, "resourceId"))

\* lines 141-152
requestFor(asset, results, index) ==
    CASE Get(asset, "type") = "model" -> _createModelRequest(asset)
      [] Get(asset, "type") = "texture" -> _createTextureRequest(asset, resultAt(results, index))
      [] OTHER -> _createAssetRequest(asset)

\* the forEach callback, lines 134-154; st = [reg, requests, refs, threw].
\* Every branch calls asset.getFileUrl(), which only Asset objects have.
\* refs notes where each input object lives in the heap (NoRef: the object
\* stays the caller's own).
\* the callback with results indexed by the count of requests kept so far
loadOneCountsKept(st, item, results, index) ==
    LET asset == item.obj
        add == existingOf(st.reg, asset) = NoRef
        p == place(st.reg, item)
        reg1 == IF add THEN addAsset(p.reg, p.ref) ELSE st.reg
        refs1 == Append(st.refs, IF add THEN p.ref ELSE item.ref)
        kept == SelectSeq(st.requests, LAMBDA r : r # NullRequest)
    IN  IF asset.proto # "Asset"
        THEN [reg |-> reg1, requests |-> st.requests, refs |-> refs1, threw |-> TRUE]
        ELSE [reg |-> reg1,
              requests |-> Append(st.requests, requestFor(asset, results, Len(kept) + 1)),
              refs |-> refs1,
              threw |-> FALSE]

\* the callback with requests.unshift in place of requests.push
loadOneUnshift(st, item, results, index) ==
    LET asset == item.obj
        add == existingOf(st.reg, asset) = NoRef
        p == place(st.reg, item)
        reg1 == IF add THEN addAsset(p.reg, p.ref) ELSE st.reg
        refs1 == Append(st.refs, IF add THEN p.ref ELSE item.ref)
    IN  IF asset.proto # "Asset"
        THEN [reg |-> reg1, requests |-> st.requests, refs |-> refs1, threw |-> TRUE]
        ELSE [reg |-> reg1,
              requests |-> <<requestFor(asset, results, index)>> \o st.requests,
              refs |-> refs1,
              threw |-> FALSE]

loadOne(st, item, results, index) ==
    LET asset == item.obj
        add == existingOf(st.reg, asset) = NoRef
        p == place(st.reg, item)
        reg1 == IF add THEN addAsset(p.reg, p.ref) ELSE st.reg
        refs1 == Append(st.refs, IF add THEN p.ref ELSE item.ref)
    IN  IF asset.proto # "Asset"
        THEN [reg |-> reg1, requests |-> st.requests, refs |-> refs1, threw |-> TRUE]
        ELSE [reg |-> reg1,
              requests |-> Append(st.requests, requestFor(asset, results, index)),
              refs |-> refs1,
              threw |-> FALSE]

RECURSIVE forEach(_, _, _, _)
forEach(st, assets, results, index) ==
    IF index > Len(assets) \/ st.threw THEN st
    ELSE forEach(loadOne(st, assets[index], results, index), assets, results, index + 1)

\* line 157 without the filter
filterRequestsKeepNull(requests) == requests

filterRequests(requests) == SelectSeq(requests, LAMBDA r : r # NullRequest)

load(reg, assets, results, options) ==
    LET st == forEach([reg |-> reg, requests |-> <<>>, refs |-> <<>>, threw |-> FALSE],
                      normalizeAssets(assets), shiftedResults(results, options), 1)
    IN  [reg |-> st.reg,
         threw |-> st.threw,
         refs |-> st.refs,
         requests |-> filterRequests(st.requests),
         options |-> shiftedOptions(results, options)]

----------------------------------------------------------------------------
(* The Loader and the promise load returns *)

Errors == {"e1"}

ResourceOf(request) == [kind |-> "Resource", of |-> request]

request(requests, options) ==
    [requests |-> requests, options |-> options, loader |-> "pending",
     resources |-> <<>>, error |-> Null,
     handle |-> "pending", value |-> UndefinedArg, timer |-> "none"]

\* a fulfilment handler that returns nothing, as the rejection handler does
onFulfilledDrop(resources) == UndefinedArg

\* .then(null, ...): a fulfilled value passes through
onFulfilled(resources) == ListArg(resources)

\* no rejection handler: the rejection reaches load's promise, nothing is thrown
onRejectedPassOn(batch) ==
    [batch EXCEPT !.handle = "rejected", !.value = ObjectArg(batch.error)]

\* the rejection handler returns nothing, so the derived promise is
\* fulfilled with undefined; the handler's effect is the timer
onRejected(batch) ==
    [batch EXCEPT !.handle = "fulfilled", !.value = UndefinedArg, !.timer = "scheduled"]

----------------------------------------------------------------------------
(* Inputs *)

ManifestEntries ==
    { [name |-> "a", type |-> "model", file |-> "f1", data |-> "d1"],
      [name |-> "n", type |-> "texture"],
      [name |-> "n", type |-> "other", tag |-> "x"],
      [name |-> "a", file |-> "f1"],
      [type |-> "other", resourceId |-> "b"] }

Manifests ==
    { <<>> }
    \cup { <<[id |-> i, data |-> e]>> : i \in Ids, e \in ManifestEntries }
    \cup { <<[id |-> i, data |-> e], [id |-> j, data |-> f]>> :
              <<i, j>> \in { p \in Ids \X Ids : p[1] # p[2] },
              <<e, f>> \in ManifestEntries \X ManifestEntries }

WithId(asset, id) == [asset EXCEPT !.resourceId = id]

FreshAssets ==
    { WithId(Asset("n", "texture", Undefined, Undefined, Prefix), "a"),
      WithId(Asset("a", "model", "f1", "d1", Prefix), "b"),
      WithId(Asset("n", "other", Undefined, Undefined, Prefix), "a"),
      WithId(Asset("a", "other", "f1", Undefined, Prefix), "b") }

\* What a caller can pass as an asset: an object the registry already holds
\* (ref > 0) or an object of its own that the registry has not seen (ref = 0).
Items ==
    { [ref |-> r, obj |-> heap[r]] : r \in 1..Len(heap) }
    \cup { [ref |-> NoRef, obj |-> a] : a \in FreshAssets }

----------------------------------------------------------------------------
(* Lookups.  result holds which method was called last and, for a lookup,  *)
(* what it returned: the reference getAsset or getAssetByResourceId        *)
(* returned (NoRef for null and undefined), or the assets of all(), by key.*)

NoResult == [op |-> "none", arg |-> "", ref |-> NoRef, list |-> <<>>]

Called(op) == [NoResult EXCEPT !.op = op]

\* lines 52-56: one lookup per key of _cache
all(reg) == [k \in DOMAIN reg.cache |-> getAssetByResourceId(reg, k)]

LookupNames == {"a", "n", "undefined"}

LookupIds == Ids \cup {"undefined"}

----------------------------------------------------------------------------
(* Actions *)

Init ==
    /\ heap = <<>>
    /\ _cache = <<>>
    /\ _names = <<>>
    /\ hashes = <<>>
    /\ registered = <<>>
    /\ batches = <<>>
    /\ faults = <<>>
    /\ nLoad = 0
    /\ nThrown = 0
    /\ nOps = 0
    /\ result = NoResult

SetRegistry(reg) ==
    /\ heap' = reg.heap
    /\ _cache' = reg.cache
    /\ _names' = reg.names
    /\ hashes' = reg.hashes
    /\ registered' = reg.registered

Update(toc) ==
    /\ nOps < MaxOps
    /\ SetRegistry(update(Registry, toc))
    /\ result' = Called("update")
    /\ nOps' = nOps + 1
    /\ UNCHANGED <<batches, faults, nLoad, nThrown>>

\* addAsset called by the application with an asset object

AddAsset(item) ==
    /\ nOps < MaxOps
    /\ LET p == place(Registry, item) IN SetRegistry(addAsset(p.reg, p.ref))
    /\ result' = Called("addAsset")
    /\ nOps' = nOps + 1
    /\ UNCHANGED <<batches, faults, nLoad, nThrown>>

FreshItems == { [ref |-> NoRef, obj |-> a] : a \in FreshAssets }

ItemLists == UNION { [1..n -> Items] : n \in 0..MaxAssets }

AssetsArgs ==
    { ListArg(l) : l \in ItemLists } \cup { ObjectArg(i) : i \in Items }

Containers == <<"c1", "c2">>

\* a results list shorter than the list of assets can be
FewContainers == <<"c1">>

\* the call shapes load(assets), load(assets, options),
\* load(assets, results) and load(assets, results, options)
CallShapes ==
    { <<UndefinedArg, UndefinedArg>>,
      <<ObjectArg("o1"), UndefinedArg>>,
      <<ListArg(Containers), UndefinedArg>>,
      <<ListArg(Containers), ObjectArg("o1")>>,
      <<ListArg(FewContainers), ObjectArg("o1")>> }

\* the calls of load that interleave with the other operations
InterleavedCalls ==
    { <<ListArg(<<>>), UndefinedArg, UndefinedArg>> }
    \cup { <<ListArg(<<i>>), UndefinedArg, UndefinedArg>> : i \in Items }
    \cup { <<ObjectArg(i), ObjectArg("o1"), UndefinedArg>> : i \in FreshItems }
    \cup { <<ListArg(<<i, j>>), ListArg(Containers), ObjectArg("o1")>> :
             i \in { x \in FreshItems : ~Truthy(x.obj.file) },
             j \in { x \in FreshItems : x.obj.type = "model" } }

\* What the call was, kept beside the batch it submitted: the input objects,
\* the second and third argument as passed, the result containers in use,
\* where each object lives after the call, the keys of _cache before the
\* call and the call's number.
callRecord(assets, results, options, r) ==
    [assets |-> [k \in 1..Len(normalizeAssets(assets)) |-> normalizeAssets(assets)[k].obj],
     second |-> results,
     third |-> options,
     results |-> shiftedResults(results, options),
     refs |-> r.refs,
     before |-> DOMAIN _cache,
     op |-> nOps + 1]

Load(assets, results, options) ==
    /\ nOps < MaxOps
    /\ LET r == load(Registry, assets, results, options)
       IN  /\ SetRegistry(r.reg)
           /\ IF r.threw
              THEN /\ nThrown' = nThrown + 1
                   /\ UNCHANGED batches
              ELSE /\ batches' = Append(batches,
                                     callRecord(assets, results, options, r)
                                         @@ request(r.requests, r.options))
                   /\ UNCHANGED nThrown
    /\ result' = Called("load")
    /\ nLoad' = nLoad + 1
    /\ nOps' = nOps + 1
    /\ UNCHANGED faults

LoaderResolve(i) ==
    /\ i \in 1..Len(batches)
    /\ batches[i].loader = "pending"
    /\ batches' = [batches EXCEPT
                     ![i].loader = "fulfilled",
                     ![i].resources = [j \in 1..Len(batches[i].requests) |->
                                          ResourceOf(batches[i].requests[j])]]
    /\ UNCHANGED <<heap, _cache, _names, hashes, registered, faults, nLoad, nThrown, nOps, result>>

LoaderReject(i, error) ==
    /\ i \in 1..Len(batches)
    /\ batches[i].loader = "pending"
    /\ batches' = [batches EXCEPT ![i].loader = "rejected", ![i].error = error]
    /\ UNCHANGED <<heap, _cache, _names, hashes, registered, faults, nLoad, nThrown, nOps, result>>

\* the promise's callbacks run once the Loader's promise has settled
Then(i) ==
    /\ i \in 1..Len(batches)
    /\ batches[i].loader # "pending"
    /\ batches[i].handle = "pending"
    /\ LET b == batches[i]
       IN  batches' = [batches EXCEPT ![i] =
                         IF b.loader = "fulfilled"
                         THEN [b EXCEPT !.handle = "fulfilled",
                                        !.value = onFulfilled(b.resources)]
                         ELSE onRejected(b)]
    /\ UNCHANGED <<heap, _cache, _names, hashes, registered, faults, nLoad, nThrown, nOps, result>>

\* the setTimeout callback of lines 159-161 throws the error
Timeout(i) ==
    /\ i \in 1..Len(batches)
    /\ batches[i].timer = "scheduled"
    /\ batches' = [batches EXCEPT ![i].timer = "fired"]
    /\ faults' = Append(faults, [batch |-> i, error |-> batches[i].error])
    /\ UNCHANGED <<heap, _cache, _names, hashes, registered, nLoad, nThrown, nOps, result>>

\* the lookups assign nothing
Looked(r) ==
    /\ nOps < MaxOps
    /\ result' = r
    /\ nOps' = nOps + 1
    /\ UNCHANGED <<heap, _cache, _names, hashes, registered, batches, faults,
                   nLoad, nThrown>>

GetAssetByResourceId(resourceId) ==
    Looked([op |-> "getAssetByResourceId", arg |-> resourceId,
            ref |-> getAssetByResourceId(Registry, resourceId), list |-> <<>>])

GetAsset(name) ==
    Looked([op |-> "getAsset", arg |-> name,
            ref |-> getAsset(Registry, name), list |-> <<>>])

All ==
    Looked([op |-> "all", arg |-> "", ref |-> NoRef, list |-> all(Registry)])

CanCall == nOps < MaxOps

Next ==
    \/ CanCall /\ \E toc \in Manifests : Update(toc)
    \/ CanCall /\ \E item \in Items : AddAsset(item)
    \/ CanCall /\ \E call \in InterleavedCalls : Load(call[1], call[2], call[3])
    \/ \E i \in 1..Len(batches) : LoaderResolve(i)
    \/ \E i \in 1..Len(batches), error \in Errors : LoaderReject(i, error)
    \/ \E i \in 1..Len(batches) : Then(i)
    \/ \E i \in 1..Len(batches) : Timeout(i)

Spec == Init /\ [][Next]_vars

(* Calls of load alone, each with objects of the caller's own, and the     *)
(* events that follow them.  The event loop runs a settled promise's       *)
(* callbacks and a timer that is due; whether the Loader ever settles a    *)
(* batch is the Loader's business.                                         *)

OwnObjectCalls ==
    { c \in InterleavedCalls :
        c[1].t = "list" /\ \A k \in 1..Len(c[1].v) : c[1].v[k].ref = NoRef }

NextFault ==
    \/ CanCall /\ \E call \in OwnObjectCalls : Load(call[1], call[2], call[3])
    \/ \E i \in 1..Len(batches) : LoaderResolve(i)
    \/ \E i \in 1..Len(batches), error \in Errors : LoaderReject(i, error)
    \/ \E i \in 1..Len(batches) : Then(i)
    \/ \E i \in 1..Len(batches) : Timeout(i)

FaultSpec ==
    /\ Init /\ [][NextFault]_vars
    /\ \A i \in 1..MaxOps : WF_vars(Then(i)) /\ WF_vars(Timeout(i))

(* The calls on the registry alone, lookups among them; the batches stay   *)
(* with the Loader.                                                        *)

NextCatalog ==
    \/ CanCall /\ \E toc \in Manifests : Update(toc)
    \/ CanCall /\ \E item \in Items : AddAsset(item)
    \/ CanCall /\ \E call \in InterleavedCalls : Load(call[1], call[2], call[3])
    \/ CanCall /\ \E resourceId \in LookupIds : GetAssetByResourceId(resourceId)
    \/ CanCall /\ \E name \in LookupNames : GetAsset(name)
    \/ CanCall /\ All

CatalogSpec == Init /\ [][NextCatalog]_vars

(* Calls of update alone *)

NextMerge == CanCall /\ \E toc \in Manifests : Update(toc)

MergeSpec == Init /\ [][NextMerge]_vars

(* One call of load, with every list of up to MaxAssets assets and every   *)
(* call shape, on the empty registry or on the registry one call built.    *)

SetupUpdate(toc) == nOps = 0 /\ Update(toc)

SetupAdd(item) == nOps = 0 /\ AddAsset(item)

LoadOnce(assets, results, options) == nLoad = 0 /\ Load(assets, results, options)

NextLoad ==
    \/ nOps = 0 /\ \E toc \in Manifests : SetupUpdate(toc)
    \/ nOps = 0 /\ \E item \in Items : SetupAdd(item)
    \/ nLoad = 0 /\ CanCall
         /\ \E assets \in AssetsArgs, shape \in CallShapes : LoadOnce(assets, shape[1], shape[2])
    \/ \E i \in 1..Len(batches) : LoaderResolve(i)
    \/ \E i \in 1..Len(batches), error \in Errors : LoaderReject(i, error)
    \/ \E i \in 1..Len(batches) : Then(i)
    \/ \E i \in 1..Len(batches) : Timeout(i)

LoadSpec == Init /\ [][NextLoad]_vars

----------------------------------------------------------------------------
(* Properties *)

RegistryNext ==
    [heap |-> heap', cache |-> _cache', names |-> _names', hashes |-> hashes',
     registered |-> registered']

IsAsset(o) == o.proto = "Asset"

\* the catalogs agree on the ids, on the name index and on every asset's fields
SameCatalog(r1, r2) ==
    /\ DOMAIN r1.cache = DOMAIN r2.cache
    /\ DOMAIN r1.names = DOMAIN r2.names
    /\ \A n \in DOMAIN r1.names : r1.names[n] = r2.names[n]
    /\ \A k \in DOMAIN r1.cache : r1.heap[r1.cache[k]] = r2.heap[r2.cache[k]]

\* C1: for every asset a stored in the catalog, getAsset(a.name) returns an
\* asset whose id is _names[a.name], and getAssetByResourceId of that id
\* returns an asset named a.name.  Stated for the Asset objects that are
\* stored under their own id.
C1_NameAndIdAgree ==
    \A k \in DOMAIN _cache :
        LET a == heap[_cache[k]]
            name == Get(a, "name")
            found == getAsset(Registry, name)
        IN  (IsAsset(a) /\ Get(a, "resourceId") = k) =>
                /\ found # NoRef
                /\ name \in DOMAIN _names
                /\ Get(heap[found], "resourceId") = _names[name]
                /\ LET byId == getAssetByResourceId(Registry, Get(heap[found], "resourceId"))
                   IN  byId # NoRef /\ Get(heap[byId], "name") = name

\* the input assets of a batch that have a file URL
WithFile(b) == { k \in 1..Len(b.assets) : Truthy(getFileUrl(b.assets[k])) }

\* C2: an asset without a file reference puts no request in the batch,
\* whatever its type: the batch holds one request per input asset that has a
\* file URL, and the resolved sequence has that length.
C2_NoFileNoRequest ==
    \A i \in 1..Len(batches) :
        LET b == batches[i]
        IN  /\ Len(b.requests) = Cardinality(WithFile(b))
            /\ b.loader = "fulfilled" => Len(b.resources) = Cardinality(WithFile(b))

\* C3: once load was called with a list holding an asset whose id was no key
\* of _cache, getAssetByResourceId of that id returns that asset, until the
\* next call on the registry and whether or not the batch fails.
C3_LoadRegisters ==
    \A i \in 1..Len(batches) :
        LET b == batches[i]
        IN  b.op = nOps =>
                \A k \in 1..Len(b.assets) :
                    LET id == Get(b.assets[k], "resourceId")
                    IN  id \notin b.before =>
                            /\ b.refs[k] # NoRef
                            /\ getAssetByResourceId(Registry, id) = b.refs[k]

\* the manifests none of whose entries carries a resourceId
PlainManifests ==
    { m \in Manifests : \A k \in 1..Len(m) : "resourceId" \notin DOMAIN m[k].data }

\* C4: a step update(toc) leaves a registry that a second update(toc) does
\* not change: same ids, same name index, same fields of every asset.
\* Stated for the manifests none of whose entries carries a resourceId.
C4_UpdateIdempotent ==
    [][ \A toc \in PlainManifests :
            (nOps' = nOps + 1 /\ nLoad' = nLoad /\ RegistryNext = update(Registry, toc))
                => SameCatalog(update(RegistryNext, toc), RegistryNext) ]_vars

\* the entry of the last of the two manifests that holds the id
LastEntry(m1, m2, id) ==
    LET in2 == { k \in 1..Len(m2) : m2[k].id = id }
        in1 == { k \in 1..Len(m1) : m1[k].id = id }
    IN  IF in2 # {} THEN m2[CHOOSE k \in in2 : TRUE].data
        ELSE m1[CHOOSE k \in in1 : TRUE].data

ManifestIds(m) == { m[k].id : k \in 1..Len(m) }

ReflectsLast(reg, m1, m2) ==
    \A id \in ManifestIds(m1) \cup ManifestIds(m2) :
        /\ getAssetByResourceId(reg, id) # NoRef
        /\ LET a == reg.heap[getAssetByResourceId(reg, id)]
               e == LastEntry(m1, m2, id)
           IN  \A f \in DOMAIN e \ {"resourceId"} : f \in DOMAIN a /\ a[f] = e[f]

\* C5: after update(M1) and update(M2) on the empty registry every id of M1
\* or M2 is retrievable by id, and every field of the last manifest entry for
\* the id (the id itself aside) has that entry's value.
C5_LastManifestWins ==
    [][ \A m1, m2 \in Manifests :
            ( /\ nOps = 1 /\ nLoad = 0 /\ Registry = update(EmptyRegistry, m1)
              /\ nOps' = 2 /\ nLoad' = 0 /\ RegistryNext = update(Registry, m2) )
                => ReflectsLast(RegistryNext, m1, m2) ]_vars

\* C6, its parts.  When the Loader rejects a batch, load's promise is never rejected (it is
\* fulfilled with undefined); the error is thrown by the timer callback, on a
\* later turn than the one that ran the rejection handler, once per rejected
\* batch and eventually for every rejected batch; no batch the Loader did not
\* reject has a fault.
FaultsOf(i) == { k \in 1..Len(faults) : faults[k].batch = i }

C6_HandleNeverRejected ==
    \A i \in 1..Len(batches) :
        LET b == batches[i]
        IN  /\ b.handle # "rejected"
            /\ (b.loader = "rejected" /\ b.handle = "fulfilled") => b.value = UndefinedArg

C6_FaultsMatchFailures ==
    \A i \in 1..Len(batches) :
        LET b == batches[i]
        IN  /\ Cardinality(FaultsOf(i)) <= 1
            /\ FaultsOf(i) # {} => b.loader = "rejected" /\ b.timer = "fired"
            /\ \A k \in FaultsOf(i) : faults[k].error = b.error

C6_FaultOnLaterTurn ==
    \A i \in 1..Len(batches) :
        Cardinality(FaultsOf(i))' > Cardinality(FaultsOf(i)) =>
            batches[i].timer = "scheduled" /\ batches[i].handle = "fulfilled"

\* C6: load's promise is never rejected; every rejected batch has exactly one
\* fault, thrown on a later turn and eventually; no other batch has a fault.
C6_FailureGoesToFaultChannel ==
    /\ [](C6_HandleNeverRejected /\ C6_FaultsMatchFailures)
    /\ [][C6_FaultOnLaterTurn]_vars
    /\ \A i \in 1..MaxOps :
          (i <= Len(batches) /\ batches[i].loader = "rejected") ~> (FaultsOf(i) # {})

C6_Witness ==
    \E i, j \in 1..Len(batches) :
        /\ batches[i].loader = "rejected"
        /\ batches[i].handle = "fulfilled"
        /\ Cardinality(FaultsOf(i)) = 1
        /\ batches[j].loader = "fulfilled"
        /\ batches[j].handle = "fulfilled"
        /\ FaultsOf(j) = {}

\* an asset of another type than model and texture that has no file
NoFetch(o) == Get(o, "type") \notin {"model", "texture"} /\ ~Truthy(Get(o, "file"))

Skipped(b) == { k \in 1..Len(b.assets) : NoFetch(b.assets[k]) }

\* C7: when exactly one asset of the list is of another type than model and
\* texture and has no file, the batch has one request fewer than the list has
\* assets, none of them a null placeholder, and the resolved sequence has that
\* length too.
C7_OneSkippedOneFewer ==
    \A i \in 1..Len(batches) :
        LET b == batches[i]
        IN  Cardinality(Skipped(b)) = 1 =>
                /\ Len(b.requests) = Len(b.assets) - 1
                /\ \A j \in 1..Len(b.requests) : b.requests[j] # NullRequest
                /\ b.loader = "fulfilled" => Len(b.resources) = Len(b.assets) - 1

C7_Witness ==
    \E i \in 1..Len(batches) :
        LET b == batches[i]
        IN  /\ Cardinality(Skipped(b)) = 1
            /\ Len(b.assets) >= 2
            /\ NoFetch(b.assets[1])
            /\ b.loader = "fulfilled"
            /\ Len(b.resources) = Len(b.assets) - 1

\* C8: every id that is a value of _names is a key of _cache.
C8_NamesPointIntoCache ==
    \A n \in DOMAIN _names : _names[n] \in DOMAIN _cache

C8_Witness ==
    /\ Cardinality(DOMAIN _names) >= 2
    /\ Cardinality(DOMAIN _cache) >= 2
    /\ nLoad >= 1
    /\ \E k \in DOMAIN _cache : Get(heap[_cache[k]], "name") \notin DOMAIN _names

\* C9: every call of load submits exactly one batch, built from the call's own
\* list: there are as many batches as calls of load, and each batch holds the
\* non-null requests of its own assets.
C9_OneBatchPerLoad ==
    /\ Len(batches) = nLoad
    /\ \A i \in 1..Len(batches) :
          LET b == batches[i]
          IN  b.requests =
                filterRequests([k \in 1..Len(b.assets) |-> requestFor(b.assets[k], b.results, k)])

\* C10: a batch the Loader fulfilled resolves load's promise with the Loader's
\* resource sequence, one resource per request of that batch, in order.
C10_ResourcesPassThrough ==
    \A i \in 1..Len(batches) :
        LET b == batches[i]
        IN  (b.loader = "fulfilled" /\ b.handle # "pending") =>
                /\ b.handle = "fulfilled"
                /\ b.value = ListArg(b.resources)
                /\ Len(b.resources) = Len(b.requests)
                /\ \A j \in 1..Len(b.requests) : b.resources[j] = ResourceOf(b.requests[j])

C10_Witness ==
    \E i \in 1..Len(batches) :
        LET b == batches[i]
        IN  /\ b.loader = "fulfilled"
            /\ b.handle = "fulfilled"
            /\ Len(b.resources) = 2
            /\ b.op < nOps
            /\ Len(batches) > i

\* C11: no call of update, addAsset or load, in any interleaving, removes a
\* key from _cache or from _names: both key sets only grow.
C11_NoEviction ==
    [][ /\ DOMAIN _cache \subseteq DOMAIN _cache'
        /\ DOMAIN _names \subseteq DOMAIN _names' ]_vars

\* a call of load came after another call, an entry of _cache has been
\* overwritten, and both maps hold two keys or more
C11_Witness ==
    /\ nOps = MaxOps
    /\ nLoad > 0
    /\ Len(heap) > Cardinality(DOMAIN _cache)
    /\ Cardinality(DOMAIN _cache) > 1
    /\ Cardinality(DOMAIN _names) > 1

\* the ids this step adds to _cache whose asset has a file
CreatedWithFile ==
    { k \in DOMAIN _cache' \ DOMAIN _cache : Truthy(Get(heap'[_cache'[k]], "file")) }

HashOf(asset) == [hash |-> FileHash(asset.file), url |-> getFileUrl(asset)]

\* C12: the Loader's hash table changes only in update: a call of update
\* calls registerHash exactly once for each id it creates with a file, with
\* that asset's hash and resolved URL, and not for an id it already knew;
\* addAsset, load and the lookups never call registerHash.
C12_HashesOnlyByCreation ==
    [][ IF result'.op = "update" /\ nOps' = nOps + 1
        THEN /\ Len(registered') = Len(registered) + Cardinality(CreatedWithFile)
             /\ SubSeq(registered', 1, Len(registered)) = registered
             /\ \A k \in CreatedWithFile :
                   /\ \E j \in (Len(registered) + 1)..Len(registered') :
                         registered'[j] = HashOf(heap'[_cache'[k]])
                   /\ hashes'[HashOf(heap'[_cache'[k]]).hash] = HashOf(heap'[_cache'[k]]).url
             /\ DOMAIN hashes' =
                   DOMAIN hashes \cup { HashOf(heap'[_cache'[k]]).hash : k \in CreatedWithFile }
             /\ CreatedWithFile = {} => hashes' = hashes
        ELSE registered' = registered /\ hashes' = hashes ]_vars

\* an update has given a known id a file and created another id with a file:
\* two stored assets have a file, registerHash was called once
C12_Witness ==
    /\ result.op = "update"
    /\ Len(registered) = 1
    /\ DOMAIN hashes # {}
    /\ \E k1, k2 \in DOMAIN _cache :
          /\ k1 # k2
          /\ _cache[k1] < _cache[k2]
          /\ Truthy(Get(heap[_cache[k1]], "file"))
          /\ ~Truthy(Get(heap[_cache[k1]], "data"))
          /\ Truthy(Get(heap[_cache[k2]], "file"))

Lookups == {"getAssetByResourceId", "getAsset", "all"}

LoadedNow == Len(batches') = Len(batches) + 1

InputIds ==
    LET b == batches'[Len(batches')]
    IN  { Get(b.assets[k], "resourceId") : k \in 1..Len(b.assets) }

\* C14: load calls addAsset for an input asset only when its id is no key of
\* _cache yet: a call of load leaves _cache[id] as it was for every input
\* asset whose id was a key already, and leaves _names as it was when every
\* input id was.
C14_LoadAddsOnlyUnknownIds ==
    [][ LoadedNow =>
          /\ \A id \in InputIds \cap DOMAIN _cache : _cache'[id] = _cache[id]
          /\ InputIds \subseteq DOMAIN _cache => _names' = _names ]_vars

\* C15: after any sequence of calls of update, the asset stored under key k
\* of _cache has resourceId k, whether update created it or merged a
\* manifest entry onto it, whatever fields the entry carries.
C15_KeyIsTheAssetsId ==
    \A k \in DOMAIN _cache : Get(heap[_cache[k]], "resourceId") = k

\* the asset at aref was retrievable by its id in reg, and asset b has its
\* name and another id
Collide(reg, aref, b) ==
    LET a == reg.heap[aref]
    IN  /\ IsAsset(a) /\ IsAsset(b)
        /\ getAssetByResourceId(reg, a.resourceId) = aref
        /\ a.name = b.name
        /\ a.resourceId # b.resourceId

\* addAsset of the object at bref led from registry reg to registry after
LastWriterWins(reg, after, bref) ==
    \A aref \in 1..Len(reg.heap) :
        Collide(reg, aref, after.heap[bref]) =>
            /\ getAsset(after, after.heap[bref].name) = bref
            /\ getAssetByResourceId(after, reg.heap[aref].resourceId) = aref
            /\ \E k \in DOMAIN all(after) : all(after)[k] = aref

\* C16: _names is last-writer-wins.  When addAsset(b) is called by the
\* application, by update for an id it creates, or by load for an asset it
\* registers, and b has the name of an asset a registered before under
\* another id, then getAsset(name) returns b, getAssetByResourceId(a's id)
\* still returns a, and a is among the assets of all().
C16_LastWriterWins ==
    /\ \A item \in Items :
          LET p == place(Registry, item)
          IN  LastWriterWins(Registry, addAsset(p.reg, p.ref), p.ref)
    /\ \A id \in Ids \ DOMAIN _cache, e \in ManifestEntries :
          LET after == updateEntry(Registry, id, e)
          IN  LastWriterWins(Registry, after, Len(after.heap))
    /\ \A item \in Items :
          LET r == load(Registry, ListArg(<<item>>), UndefinedArg, UndefinedArg)
          IN  (~r.threw /\ existingOf(Registry, item.obj) = NoRef) =>
                  LastWriterWins(Registry, r.reg, r.refs[1])

\* two assets with one name are stored under their two ids, and the name
\* leads to the one registered later
C16_Witness ==
    \E k1, k2 \in DOMAIN _cache :
        LET a == heap[_cache[k1]]
            b == heap[_cache[k2]]
        IN  /\ IsAsset(a) /\ IsAsset(b)
            /\ a.resourceId = k1 /\ b.resourceId = k2 /\ k1 # k2
            /\ _cache[k1] < _cache[k2]
            /\ a.name = b.name
            /\ getAsset(Registry, a.name) = _cache[k2]
            /\ all(Registry)[k1] = _cache[k1]

\* the input positions from k on whose asset gets a request, in input order
RECURSIVE WithRequest(_, _, _)
WithRequest(assets, results, k) ==
    IF k > Len(assets) THEN <<>>
    ELSE (IF requestFor(assets[k], results, k) # NullRequest THEN <<k>> ELSE <<>>)
             \o WithRequest(assets, results, k + 1)

\* C17: the batch load submits is the per-asset requests in input order
\* with the nulls left out: the j-th request of the batch is the request
\* built for the j-th input asset that has one, and the j-th resource the
\* Loader resolves is that asset's.
C17_BatchKeepsInputOrder ==
    \A i \in 1..Len(batches) :
        LET b == batches[i]
            kept == WithRequest(b.assets, b.results, 1)
        IN  /\ Len(b.requests) = Len(kept)
            /\ \A j \in 1..Len(kept) :
                  /\ b.requests[j] = requestFor(b.assets[kept[j]], b.results, kept[j])
                  /\ b.loader = "fulfilled" =>
                        b.resources[j] =
                            ResourceOf(requestFor(b.assets[kept[j]], b.results, kept[j]))

\* the Loader fulfilled a batch of as many requests as input assets, the
\* first a texture request and the last a different one
C17_Witness ==
    \E i \in 1..Len(batches) :
        LET b == batches[i]
        IN  /\ Len(b.assets) = MaxAssets
            /\ Len(b.requests) = Len(b.assets)
            /\ b.requests[1] # b.requests[Len(b.requests)]
            /\ b.requests[1].kind = "TextureRequest"
            /\ b.loader = "fulfilled"

TextureContainers(b) ==
    { b.requests[j].texture :
        j \in { n \in 1..Len(b.requests) : b.requests[n].kind = "TextureRequest" } }

\* C18: a call of load without a third argument hands its second argument
\* to the Loader as options and has no result containers, so none of its
\* texture requests carries one, also when the second argument is a list of
\* containers; a call with a third argument has the second argument as its
\* result containers and hands the third to the Loader as options.
C18_SecondArgumentByArity ==
    \A i \in 1..Len(batches) :
        LET b == batches[i]
        IN  IF b.third = UndefinedArg
            THEN /\ b.options = b.second
                 /\ b.results = ListArg(<<>>)
                 /\ TextureContainers(b) \subseteq {Undefined}
            ELSE /\ b.options = b.third
                 /\ b.results = b.second
                 /\ \A k \in 1..Len(b.assets) :
                       Get(b.assets[k], "type") = "texture" =>
                           resultAt(b.second, k) \in TextureContainers(b)

\* a call load(assets, containers) submitted a texture request, and the
\* Loader got the containers as its options
C18_Witness ==
    \E i \in 1..Len(batches) :
        LET b == batches[i]
        IN  /\ b.third = UndefinedArg
            /\ b.second = ListArg(Containers)
            /\ b.options = ListArg(Containers)
            /\ TextureContainers(b) = {Undefined}

\* an asset that is neither model nor texture and has no file gets no request
Dropped(asset) ==
    Get(asset, "type") \notin {"model", "texture"} /\ ~Truthy(Get(asset, "file"))

\* where the request of the k-th input asset stands in the batch
PlaceInBatch(b, k) == k - Cardinality({ m \in 1..(k - 1) : Dropped(b.assets[m]) })

\* C19: in a call load(assets, results, options) the request of a texture
\* asset at input position k carries results[k], counted in the input list
\* and not in the batch, also when assets before it got no request; it
\* carries no container when results has no entry at k.
C19_ContainerByInputIndex ==
    \A i \in 1..Len(batches) :
        LET b == batches[i]
        IN  (b.third # UndefinedArg /\ b.second.t = "list") =>
                \A k \in 1..Len(b.assets) :
                    Get(b.assets[k], "type") = "texture" =>
                        /\ b.requests[PlaceInBatch(b, k)].kind = "TextureRequest"
                        /\ b.requests[PlaceInBatch(b, k)].texture =
                              IF k <= Len(b.second.v) THEN b.second.v[k] ELSE Undefined

\* the first asset got no request, the texture after it is first in the
\* batch and carries the container of its input position
C19_Witness ==
    \E i \in 1..Len(batches) :
        LET b == batches[i]
        IN  /\ b.third # UndefinedArg
            /\ b.second = ListArg(Containers)
            /\ Len(b.assets) = Len(Containers)
            /\ Dropped(b.assets[1])
            /\ Get(b.assets[Len(b.assets)], "type") = "texture"
            /\ b.requests[Len(b.requests)].kind = "TextureRequest"
            /\ b.requests[Len(b.requests)].texture = Containers[Len(b.assets)]
            /\ Len(b.requests) < Len(b.assets)

\* C20: load([]) submits one batch of no requests, throws nothing, and
\* leaves _cache and _names as they were: no call of load, the one with the
\* empty list included, has thrown, and what _cache holds are assets, the
\* empty list is not among them.
C20_EmptyListIsNoAsset ==
    /\ nThrown = 0
    /\ \A k \in DOMAIN _cache : IsAsset(heap[_cache[k]])

====
